---- MODULE Spec2Model ----
(***************************************************************************)
(* Model of the generation / validation / evaluation retry loop of        *)
(* HtmlAgent (src/agents/sub_agents/html.py).                              *)
(*                                                                         *)
(* One HtmlAgent instance is modelled.  Its LangGraph state is kept by a   *)
(* MemorySaver checkpointer under the fixed thread id "1", so the fields   *)
(* of State survive from one run() to the next; run() overwrites only the  *)
(* keys of initial_state.                                                  *)
(*                                                                         *)
(* Every graph node is one action; the conditional edge that follows the   *)
(* node is evaluated in the same action and stored in pc.  The model calls *)
(* (generator, evaluator) and the HTML validator are external: their       *)
(* outcomes are drawn from small sets.                                     *)
(*                                                                         *)
(* Step budget.  run() invokes the graph with recursion_limit = 15.  The   *)
(* Pregel loop stops with GraphRecursionError as soon as its step counter  *)
(* passes the limit, and it tests this before it tests whether any node is *)
(* left to run; the START bookkeeping step takes the first superstep.      *)
(* Hence at most 15 nodes of the graph execute in one run, and a run whose *)
(* 15th node has executed raises GraphRecursionError whatever that node    *)
(* decided.                                                                *)
(***************************************************************************)
EXTENDS Integers, Sequences, FiniteSets, TLC

\* ---------------------------------------------------------------- bounds
MaxMaxRetries == 3
MaxRuns == 2
MaxApplyMaxRetries == 7
MaxSaves == 3
MaxWindow == 2
MaxTurns == 3
MaxLegacyMaxRetries == 2
MaxLegacyRuns == 2

\* ------------------------------------------------------ program constants
RecursionLimit == 15
LegacyRecursionLimit == 25
InitialBestScore == 0 - 1
DefaultMaxRetries == 3
DefaultAcceptanceThreshold == 90
ApplyRecursionLimit == 15

\* --------------------------------------------------------------- values
None == "None"
\* evaluator_score is None or an int: << >> is None, <<n>> is the int n
NoScore == << >>
Score(n) == <<n>>
NoResult == [status |-> "none", html |-> "none"]
NoHtml == "<no-html>"

\* fixed fragments of the source
ErrNoSatisfactory == "<p><span>Error: No satisfactory HTML generated</span></p>"
ErrEmptyContent == "<p><span>Error: LLM returned empty content</span></p>"
ErrDuringGeneration == "<p><span>Error during content generation</span></p>"
ErrContentProcessing == "<p><span>Content processing encountered an error.</span></p>"

\* what the generator model call can answer (after strip and fence removal);
\* "" is an answer that is empty once stripped
GeneratorOutputs == {"", "raw_a", "b", "junk"}
\* what the structured evaluator call can answer
EvaluatorScores == {0, 50, 95}
\* the feedback the except branch of evaluator_action stores
ErrDuringEvaluation == "Error during evaluation"
\* the arguments of the n-th call of run() as they stand in initial_state:
\* description, style_guidelines, document_structure, and the context that
\* get_context builds from them; before the first call the keys are not set
RunInputs(n) ==
    [description |-> <<"description", n>>,
     style_guidelines |-> <<"style_guidelines", n>>,
     document_structure |-> <<"document_structure", n>>,
     context |-> <<"context", n>>]

\* acceptance_threshold values given to the constructor
Thresholds == {0, 90}

VARIABLES
    max_retries, acceptance_threshold,
    html, content_generation_outcome, validation_outcome,
    evaluator_score, evaluator_feedback,
    current_retry_count, best_html_so_far, best_score_so_far,
    max_retries_reached, run_inputs,
    pc, steps, result,
    runs, gen_calls, scored, failures, entered_by, accept_html, ended_by

\* which object a behaviour exercises; the objects share no state
VARIABLE unit

\* ApplyAgent (src/agents/sub_agents/apply.py): constructor arguments and
\* attributes, the fields of its State, the position in the graph, the
\* response of run(), and what happened so far in the run
VARIABLES
    aa_max_retries, aa_queue, aa_nested,
    apply_type, aa_chunk_html, apply_outcome, data_position_id_start,
    data_position_id_end, aa_current_retry_count, aa_max_retries_reached,
    aa_pc, aa_steps, aa_result,
    decider_calls, decider_failures, last_reply, apply_requests,
    nodes_run, aa_entered_by, aa_ended_by

aa_config == <<aa_max_retries, aa_queue, aa_nested>>
aa_fields == <<apply_type, aa_chunk_html, apply_outcome, data_position_id_start,
               data_position_id_end, aa_current_retry_count, aa_max_retries_reached>>
aa_control == <<aa_pc, aa_steps, aa_result>>
aa_history == <<decider_calls, decider_failures, last_reply, apply_requests,
                nodes_run, aa_entered_by, aa_ended_by>>
apply_agent_vars == <<aa_config, aa_fields, aa_control, aa_history>>

\* ApplyTool: the chunk store and websocket it was built with, and the
\* arguments, model traffic and outcome of the latest apply() call
VARIABLES
    content_db, websocket,
    tool_call, tool_prompt, tool_reply, tool_model_calls, tool_sent, tool_result,
    tool_raised

apply_tool_vars == <<content_db, websocket, tool_call, tool_prompt, tool_reply,
                     tool_model_calls, tool_sent, tool_result, tool_raised>>

\* ContentChunkDB (src/database/content_chunk_db.py): the content_chunks
\* table, the cache of recently saved chunks and its size, and the chunks
\* handed to save_content_chunk so far
VARIABLES content_chunks, recent_chunks, max_cache_size, saved

chunk_db_vars == <<content_chunks, recent_chunks, max_cache_size, saved>>

\* PointerManager (src/ContextStore/managers.py): maxlen of the window, the id
\* store, the window (index 1 is the left end of the deque), the ids handed
\* to the delete_from_db callback, the latest call, and whether every call so
\* far was an add with default arguments
VARIABLES pm_maxlen, pm_store, pm_window, pm_deleted, pm_last, pm_default_adds_only

pointer_manager_vars == <<pm_maxlen, pm_store, pm_window, pm_deleted, pm_last,
                          pm_default_adds_only>>

\* ContentAgent (src/agents/content.py): where a run_html_agent call stands,
\* the number of calls made, and generated_chunks; its html_agent is the
\* HtmlAgent above and its chunk_db the ContentChunkDB above
VARIABLES ca_pc, ca_calls, generated_chunks

content_agent_vars == <<ca_pc, ca_calls, generated_chunks>>

\* ManagerAgent (src/agents/manager.py): where the agent graph of thread "2"
\* stands, whether a queue was given, the tool calls of the current prompt, the
\* payloads put on the queue, the tool whose interrupt() suspended the graph,
\* and what the last tool handed back to the agent; its apply_tool is the
\* ApplyTool above
VARIABLES mgr_pc, mgr_queue, mgr_turns, mgr_puts, suspended_at, mgr_tool_message,
          mgr_apply_call

manager_agent_vars == <<mgr_pc, mgr_queue, mgr_turns, mgr_puts, suspended_at,
                        mgr_tool_message, mgr_apply_call>>

\* the legacy HtmlAgent (src/Agents/ContentAgent/html_ag.py): constructor
\* arguments, the fields of its State, the position in the graph, what run()
\* did, and the history of the current run
VARIABLES
    lg_max_retries, lg_acceptance_threshold,
    lg_html, lg_content_generation_outcome, lg_validation_outcome,
    lg_evaluator_score, lg_evaluator_feedback, lg_current_retry_count,
    lg_best_html_so_far, lg_best_score_so_far, lg_max_retries_reached,
    lg_pc, lg_steps, lg_result,
    lg_runs, lg_gen_calls, lg_gen_failures, lg_entered_by, lg_ended_by

lg_config == <<lg_max_retries, lg_acceptance_threshold>>
lg_fields == <<lg_html, lg_content_generation_outcome, lg_validation_outcome,
               lg_evaluator_score, lg_evaluator_feedback, lg_current_retry_count,
               lg_best_html_so_far, lg_best_score_so_far, lg_max_retries_reached>>
lg_control == <<lg_pc, lg_steps, lg_result>>
lg_history == <<lg_runs, lg_gen_calls, lg_gen_failures, lg_entered_by, lg_ended_by>>
legacy_vars == <<lg_config, lg_fields, lg_control, lg_history>>

config == <<max_retries, acceptance_threshold>>
fields == <<html, content_generation_outcome, validation_outcome,
            evaluator_score, evaluator_feedback, current_retry_count,
            best_html_so_far, best_score_so_far, max_retries_reached>>
control == <<pc, steps, result>>
history == <<runs, gen_calls, scored, failures, entered_by, accept_html, ended_by>>
html_agent_vars == <<config, fields, run_inputs, control, history>>
\* everything an HtmlAgent step leaves alone
others == <<unit, apply_agent_vars, apply_tool_vars, chunk_db_vars,
           pointer_manager_vars, content_agent_vars,
    manager_agent_vars,
    legacy_vars>>
\* everything the start of an HtmlAgent run leaves alone
not_html_run == <<unit, apply_agent_vars, apply_tool_vars, chunk_db_vars,
                 pointer_manager_vars, generated_chunks,
    manager_agent_vars,
    legacy_vars>>
vars == <<html_agent_vars, others>>

\* ----------------------------------------------------------- HTMLValidator
\* validate_and_repair on a non-empty string: a repaired document, or an
\* error when nothing is left after the forbidden tags are removed
validate_and_repair(h) ==
    CASE h = "raw_a" -> [status |-> "success", html |-> "a"]
      [] h = "a"     -> [status |-> "success", html |-> "a"]
      [] h = "b"     -> [status |-> "success", html |-> "b"]
      [] OTHER       -> [status |-> "error", html |-> "Content removed during validation"]

\* -------------------------------------------------------------- the units
Units == {"HtmlAgent", "ApplyAgent", "ApplyTool", "ContentChunkDB",
          "PointerManager", "ContentAgent", "ManagerAgent", "LegacyHtmlAgent"}

\* ------------------------------------------------------ ApplyAgent: values
\* the members of the ApplyType enumeration
ApplyTypeMembers == {"INSERT", "DELETE", "EDIT"}
\* what a caller can pass as apply_type: a member, or a plain string
ApplyTypeArguments == ApplyTypeMembers \cup {"BOGUS"}
NoPosition == "-1"
Absent == "<absent>"
\* position ids of the document the model can name
PositionIds == {"p1", "p2"}
\* what the model call of location_decider can do: raise, answer text that
\* is not JSON, answer JSON that is not an object, or answer a JSON object
\* in which each of the two position keys is present or absent
DeciderReplies ==
    {[kind |-> k, start |-> Absent, end |-> Absent] :
        k \in {"raise", "malformed", "non_object"}}
    \cup [kind : {"object"}, start : PositionIds \cup {Absent},
          end : PositionIds \cup {Absent}]
\* the chunk_html argument of run(): its default, or the html of a chunk
ChunkHtmlArguments == {"", "<p>chunk</p>"}
\* what interrupt() hands back to request_apply: the resume value of the
\* invocation, a dict that may carry a status
NoResume == [status |-> "<no resume>"]
NoReply == [kind |-> "none", start |-> Absent, end |-> Absent]
NoApplyResult == [status |-> "none", data_position_id_start |-> Absent,
                  data_position_id_end |-> Absent]

\* ApplyAgent.__init__, before any run
ApplyAgentInit ==
    /\ aa_max_retries \in IF unit = "ApplyAgent" THEN 0..MaxApplyMaxRetries ELSE {0}
    /\ aa_queue \in IF unit = "ApplyAgent" THEN {"unset", "none", "queue"} ELSE {"unset"}
    /\ aa_nested \in IF unit = "ApplyAgent" THEN BOOLEAN ELSE {FALSE}
    /\ apply_type = Absent
    /\ aa_chunk_html = ""
    /\ apply_outcome = Absent
    /\ data_position_id_start = Absent
    /\ data_position_id_end = Absent
    /\ aa_current_retry_count = 0
    /\ aa_max_retries_reached = FALSE
    /\ aa_pc = "idle"
    /\ aa_steps = 0
    /\ aa_result = NoApplyResult
    /\ decider_calls = 0
    /\ decider_failures = 0
    /\ last_reply = NoReply
    /\ apply_requests = << >>
    /\ nodes_run = {}
    /\ aa_entered_by = "none"
    /\ aa_ended_by = "none"

\* ------------------------------------------------------- ApplyTool: values
ChunkIds == {"c1", "c2"}
Missing == "<missing>"
\* the html of a stored chunk; the column is NOT NULL but may be empty
StoredHtml == {"", "<p>chunk</p>"}
\* the type argument is a string, matched case-insensitively
ToolTypeArguments == {"INSERT", "insert", "EDIT", "DELETE", "INVALID"}
\* response.content as a sequence of tokens: a JSON document, other text,
\* and Markdown fences
JsonText == "{position_id: p1}"
\* the fence that opens a json code block, and the bare fence
FenceJson == "[fence]json"
Fence == "[fence]"
ModelContents ==
    { <<JsonText>>, <<FenceJson, JsonText, Fence>>, <<Fence, JsonText, Fence>>,
      <<"junk">>, <<FenceJson, "junk", Fence>>, <<JsonText, "junk">> }
\* what self.model.invoke does: it raises, or returns a response
ModelReplies == {[raises |-> TRUE, content |-> << >>]} \cup
                {[raises |-> FALSE, content |-> c] : c \in ModelContents}
NoCall == [chunk_id |-> "none", type |-> "none"]
NoPrompt == [template |-> "none", chunk_html |-> ""]
NoModelReply == [raises |-> FALSE, content |-> << >>]
NoToolResult == [error |-> << >>, position_id |-> Absent]

ApplyToolInit ==
    /\ content_db \in IF unit = "ApplyTool"
                      THEN [ChunkIds -> StoredHtml \cup {Missing}]
                      ELSE {[c \in ChunkIds |-> Missing]}
    /\ websocket \in IF unit = "ApplyTool" THEN BOOLEAN ELSE {FALSE}
    /\ tool_call = NoCall
    /\ tool_prompt = NoPrompt
    /\ tool_reply = NoModelReply
    /\ tool_model_calls = 0
    /\ tool_sent = 0
    /\ tool_result = NoToolResult
    /\ tool_raised = FALSE

\* --------------------------------------------------- ContentChunkDB: values
\* chunk ids (uuid4 values, or ids given by the caller)
DbIds == {1, 2}
\* ContentChunk(html, position_guideline, id, status): a None guideline is ""
ContentChunk(chunk_html, position_guideline, id, status) ==
    [id |-> id, html |-> chunk_html,
     position_guideline |-> IF position_guideline = None THEN ""
                            ELSE position_guideline,
     status |-> status]
\* the chunks save_content_chunk is called with
SavedChunks ==
    {ContentChunk(h, g, i, st) :
        h \in {"<p>a</p>", "<p>b</p>"}, g \in {None, "guide"}, i \in DbIds,
        st \in {"PENDING", "APPLIED"}}
\* an empty content_chunks table
EmptyTable == [i \in {} |-> None]
\* max_cache_size of ContentChunkDB.__init__
DefaultMaxCacheSize == 10

ContentChunkDBInit ==
    /\ content_chunks = EmptyTable
    /\ recent_chunks = << >>
    /\ max_cache_size \in IF unit = "ContentChunkDB" THEN {1, 2}
                          ELSE {DefaultMaxCacheSize}
    /\ saved = << >>

\* --------------------------------------------------- PointerManager: values
PointerIds == {"a", "b", "c"}
\* a pointer: its id and the rest of its content
Pointers == [id : PointerIds, data : {"v1", "v2"}]
NoPointerCall == [op |-> "none", id |-> "none", flag |-> FALSE, returned |-> None]

PointerManagerInit ==
    /\ pm_maxlen \in IF unit = "PointerManager" THEN 1..MaxWindow ELSE {1}
    /\ pm_store = [i \in {} |-> None]
    /\ pm_window = << >>
    /\ pm_deleted = {}
    /\ pm_last = NoPointerCall
    /\ pm_default_adds_only = TRUE

\* ----------------------------------------------------- ContentAgent: values
\* the html of the placeholder chunks of run_html_agent
ErrGeneratingContent == "<p><span>Error generating content.</span></p>"
ErrExceptionOccurred == "<p><span>An exception occurred: ...</span></p>"

ContentAgentInit ==
    /\ ca_pc = "idle"
    /\ ca_calls = 0
    /\ generated_chunks = << >>

\* ------------------------------------------------------------ construction
\* ---------------------------------------------------- ManagerAgent: values
\* the tool_name of a client's reply
ClientToolNames == {"read_document", "apply", "other"}
NoToolMessage == [tool |-> "none", status |-> "none", message |-> << >>]
\* the arguments of the last apply_tool_func call
NoApplyCall == [type |-> "none", chunk_id |-> "none"]
\* the type arguments the agent passes to apply_tool_func
ManagerTypeArguments == {"INSERT", "EDIT", "DELETE"}
\* the replies of the model of the apply tool in a manager run
ManagerModelReplies == {[raises |-> TRUE, content |-> << >>],
                        [raises |-> FALSE, content |-> <<JsonText>>],
                        [raises |-> FALSE, content |-> <<"junk">>]}

ManagerAgentInit ==
    /\ mgr_pc = "idle"
    /\ mgr_queue \in IF unit = "ManagerAgent" THEN BOOLEAN ELSE {FALSE}
    /\ mgr_turns = 0
    /\ mgr_puts = 0
    /\ suspended_at = "none"
    /\ mgr_tool_message = NoToolMessage
    /\ mgr_apply_call = NoApplyCall

\* ------------------------------------------------- legacy HtmlAgent: values
\* what the generator model call of the legacy agent can answer
LegacyGeneratorOutputs == {"raw_a", "junk"}
\* what its structured evaluator call can answer
LegacyEvaluatorScores == {50, 95}
\* what run() has done: nothing yet, returned the final state, or raised
LegacyOutcomes == {"none", "returned", "GraphRecursionError"}

LegacyHtmlAgentInit ==
    /\ lg_max_retries \in IF unit = "LegacyHtmlAgent" THEN 0..MaxLegacyMaxRetries
                          ELSE {0}
    /\ lg_acceptance_threshold = DefaultAcceptanceThreshold
    /\ lg_html = ""
    /\ lg_content_generation_outcome = None
    /\ lg_validation_outcome = None
    /\ lg_evaluator_score = NoScore
    /\ lg_evaluator_feedback = None
    /\ lg_current_retry_count = 0
    /\ lg_best_html_so_far = ""
    /\ lg_best_score_so_far = InitialBestScore
    /\ lg_max_retries_reached = FALSE
    /\ lg_pc = "idle"
    /\ lg_steps = 0
    /\ lg_result = "none"
    /\ lg_runs = 0
    /\ lg_gen_calls = 0
    /\ lg_gen_failures = 0
    /\ lg_entered_by = "none"
    /\ lg_ended_by = "none"

Init ==
    /\ unit \in Units
    /\ max_retries \in IF unit = "HtmlAgent" THEN 0..MaxMaxRetries
                       ELSE IF unit = "ContentAgent" THEN {DefaultMaxRetries}
                       ELSE {0}
    /\ acceptance_threshold \in IF unit = "HtmlAgent" THEN Thresholds
                                ELSE IF unit = "ContentAgent"
                                THEN {DefaultAcceptanceThreshold}
                                ELSE {0}
    /\ html = ""
    /\ run_inputs = RunInputs(0)
    /\ content_generation_outcome = None
    /\ validation_outcome = None
    /\ evaluator_score = NoScore
    /\ evaluator_feedback = None
    /\ current_retry_count = 0
    /\ best_html_so_far = ""
    /\ best_score_so_far = InitialBestScore
    /\ max_retries_reached = FALSE
    /\ pc = "idle"
    /\ steps = 0
    /\ result = NoResult
    /\ runs = 0
    /\ gen_calls = 0
    /\ scored = << >>
    /\ failures = 0
    /\ entered_by = "none"
    /\ accept_html = NoHtml
    /\ ended_by = "none"
    /\ ApplyAgentInit
    /\ ApplyToolInit
    /\ ContentChunkDBInit
    /\ PointerManagerInit
    /\ ContentAgentInit
    /\ ManagerAgentInit
    /\ LegacyHtmlAgentInit

\* a node of the graph may execute
CanStep(node) == pc = node /\ steps < RecursionLimit

\* ---------------------------------------------------------------- run()
\* run(): graph.invoke(initial_state, config) merges initial_state into the
\* checkpointed state of thread "1" and enters the graph at the moderator
RunStart ==
    /\ \/ unit = "HtmlAgent"
       \/ \* self.html_agent.run(...) called by ContentAgent.run_html_agent
          unit = "ContentAgent" /\ ca_pc = "idle" /\ ca_calls < MaxRuns
    /\ ca_pc' = IF unit = "ContentAgent" THEN "in_run" ELSE ca_pc
    /\ ca_calls' = IF unit = "ContentAgent" THEN ca_calls + 1 ELSE ca_calls
    /\ pc \in {"idle", "done"}
    /\ runs < MaxRuns
    /\ runs' = runs + 1
    /\ run_inputs' = RunInputs(runs')
    /\ html' = ""
    /\ current_retry_count' = 0
    /\ best_html_so_far' = ""
    /\ best_score_so_far' = InitialBestScore
    /\ max_retries_reached' = FALSE
    /\ pc' = "moderator"
    /\ steps' = 0
    /\ result' = NoResult
    /\ gen_calls' = 0
    /\ scored' = << >>
    /\ failures' = 0
    /\ entered_by' = "start"
    /\ accept_html' = NoHtml
    /\ ended_by' = "none"
    /\ UNCHANGED <<not_html_run, config, content_generation_outcome,
                   validation_outcome, evaluator_score, evaluator_feedback>>

\* the response run() builds from the final state of the graph
RunResponse(final_html, final_validation_outcome) ==
    [status |-> IF final_html # "" /\ final_validation_outcome # "error"
                THEN "success" ELSE "error",
     html   |-> IF final_validation_outcome # "error"
                THEN final_html ELSE ErrNoSatisfactory]

\* variant: the GraphRecursionError handler is missing and the error escapes
RecursionResponse_Unhandled == [status |-> "raised", html |-> "GraphRecursionError"]

\* the response run() builds in its GraphRecursionError handler
RecursionResponse == [status |-> "error", html |-> ErrNoSatisfactory]

\* run(): the graph reached END within the step budget
RunReturn ==
    /\ pc = "END"
    /\ steps < RecursionLimit
    /\ result' = RunResponse(html, validation_outcome)
    /\ ended_by' = IF max_retries_reached THEN "ceiling" ELSE "accept"
    /\ pc' = "done"
    /\ UNCHANGED <<others, config, run_inputs, fields, steps, runs, gen_calls, scored, failures,
                   entered_by, accept_html>>

\* run(): the step budget is used up, graph.invoke raises GraphRecursionError
RunRecursionError ==
    /\ pc \notin {"idle", "done"}
    /\ steps = RecursionLimit
    /\ result' = RecursionResponse
    /\ ended_by' = "recursion"
    /\ pc' = "done"
    /\ UNCHANGED <<others, config, run_inputs, fields, steps, runs, gen_calls, scored, failures,
                   entered_by, accept_html>>

\* ------------------------------------------------------------- moderator
\* variant: the test on evaluator_score is inverted
is_retry_ScoreRecorded(score, outcome) == (score # NoScore) \/ (outcome = "error")

is_retry(score, outcome) == (score = NoScore) \/ (outcome = "error")

\* variant: the flag is ignored and the loop goes on
decide_moderator_next_step_Ignored(reached) == "content_generator"

decide_moderator_next_step(reached) ==
    IF reached THEN "prepare_final_output" ELSE "content_generator"

\* variant: the feedback of the last evaluation is kept for the next attempt
ProceedUpdates_KeepsFeedback(current_retries, feedback) ==
    [html |-> "",
     evaluator_score |-> NoScore,
     evaluator_feedback |-> feedback,
     content_generation_outcome |-> None,
     validation_outcome |-> None,
     current_retry_count |-> current_retries,
     max_retries_reached |-> FALSE]

\* the updates dict moderator_action returns when it proceeds
ProceedUpdates(current_retries, feedback) ==
    [html |-> "",
     evaluator_score |-> NoScore,
     evaluator_feedback |-> None,
     content_generation_outcome |-> None,
     validation_outcome |-> None,
     current_retry_count |-> current_retries,
     max_retries_reached |-> FALSE]

moderator_action ==
    /\ CanStep("moderator")
    /\ LET current_retries == IF is_retry(evaluator_score, validation_outcome)
                              THEN current_retry_count + 1
                              ELSE current_retry_count
       IN  IF current_retries > max_retries
           THEN /\ max_retries_reached' = TRUE
                /\ current_retry_count' = current_retries
                /\ html' = IF html # "" THEN html ELSE ErrEmptyContent
                /\ UNCHANGED <<evaluator_score, evaluator_feedback,
                               content_generation_outcome, validation_outcome>>
           ELSE LET updates == ProceedUpdates(current_retries, evaluator_feedback)
                IN  /\ html' = updates.html
                    /\ evaluator_score' = updates.evaluator_score
                    /\ evaluator_feedback' = updates.evaluator_feedback
                    /\ content_generation_outcome' = updates.content_generation_outcome
                    /\ validation_outcome' = updates.validation_outcome
                    /\ current_retry_count' = updates.current_retry_count
                    /\ max_retries_reached' = updates.max_retries_reached
    /\ pc' = decide_moderator_next_step(max_retries_reached')
    /\ steps' = steps + 1
    /\ UNCHANGED <<others, config, run_inputs, best_html_so_far, best_score_so_far, result, history>>

\* ------------------------------------------------------- content generator
\* variant: the validator is entered whatever the generator reported
check_content_generation_outcome_Always(outcome) == "html_validator_node"

check_content_generation_outcome(outcome) ==
    IF outcome = "success" THEN "html_validator_node" ELSE "handle_content_error"

content_generator_action ==
    /\ CanStep("content_generator")
    /\ \/ \E generated_html \in GeneratorOutputs :
             /\ html' = generated_html
             /\ content_generation_outcome' = "success"
             /\ failures' = failures
       \/ /\ html' = ErrDuringGeneration
          /\ content_generation_outcome' = "error"
          /\ failures' = failures + 1
    /\ gen_calls' = gen_calls + 1
    /\ pc' = check_content_generation_outcome(content_generation_outcome')
    /\ steps' = steps + 1
    /\ UNCHANGED <<others, config, run_inputs, validation_outcome, evaluator_score, evaluator_feedback,
                   current_retry_count, best_html_so_far, best_score_so_far,
                   max_retries_reached, result, runs, scored, entered_by,
                   accept_html, ended_by>>

handle_content_error_action ==
    /\ CanStep("handle_content_error")
    /\ html' = ErrContentProcessing
    /\ pc' = "moderator"
    /\ entered_by' = "generator_error"
    /\ steps' = steps + 1
    /\ UNCHANGED <<others, config, run_inputs, content_generation_outcome, validation_outcome,
                   evaluator_score, evaluator_feedback, current_retry_count,
                   best_html_so_far, best_score_so_far, max_retries_reached,
                   result, runs, gen_calls, scored, failures, accept_html, ended_by>>

\* ------------------------------------------------------------- validator
check_validation_outcome(outcome) ==
    IF outcome = "success" THEN "evaluator" ELSE "moderator"

html_validator_action ==
    /\ CanStep("html_validator_node")
    /\ IF html = ""
       THEN /\ validation_outcome' = "error"
            /\ html' = html
       ELSE \/ LET validation_result == validate_and_repair(html)
               IN  /\ validation_outcome' = validation_result.status
                   /\ html' = validation_result.html
            \/ \* the validator raised
               /\ validation_outcome' = "error"
               /\ html' = html
    /\ pc' = check_validation_outcome(validation_outcome')
    /\ entered_by' = IF validation_outcome' = "error" THEN "validation_error"
                     ELSE entered_by
    /\ failures' = IF validation_outcome' = "error" THEN failures + 1 ELSE failures
    /\ steps' = steps + 1
    /\ UNCHANGED <<others, config, run_inputs, content_generation_outcome, evaluator_score,
                   evaluator_feedback, current_retry_count, best_html_so_far,
                   best_score_so_far, max_retries_reached, result, runs,
                   gen_calls, scored, accept_html, ended_by>>

\* ------------------------------------------------------------- evaluator
check_evaluation_score(score) ==
    IF score >= acceptance_threshold THEN "END" ELSE "moderator"

\* variant: the newest candidate always replaces the best
NewBest_Latest(score, current_html, best_score, best_html) ==
    [score |-> score, html |-> current_html]

\* variant: a tie replaces the best candidate
NewBest_Ties(score, current_html, best_score, best_html) ==
    IF score >= best_score
    THEN [score |-> score, html |-> current_html]
    ELSE [score |-> best_score, html |-> best_html]

\* the best candidate after an evaluation that returned score for current_html
NewBest(score, current_html, best_score, best_html) ==
    IF score > best_score
    THEN [score |-> score, html |-> current_html]
    ELSE [score |-> best_score, html |-> best_html]

\* variant: the failed evaluation is promoted like a score of 0
EvaluatorError_Promotes(current_html, best_score, best_html) ==
    [evaluator_score |-> 0,
     evaluator_feedback |-> ErrDuringEvaluation,
     best_html_so_far |-> IF 0 > best_score THEN current_html ELSE best_html,
     best_score_so_far |-> IF 0 > best_score THEN 0 ELSE best_score]

\* the except branch of evaluator_action: the update it returns
EvaluatorError(current_html, best_score, best_html) ==
    [evaluator_score |-> 0,
     evaluator_feedback |-> ErrDuringEvaluation,
     best_html_so_far |-> best_html,
     best_score_so_far |-> best_score]

evaluator_action ==
    /\ CanStep("evaluator")
    /\ \/ \E score \in EvaluatorScores :
             LET best == NewBest(score, html, best_score_so_far, best_html_so_far)
             IN  /\ evaluator_score' = Score(score)
                 /\ evaluator_feedback' = "feedback"
                 /\ best_html_so_far' = best.html
                 /\ best_score_so_far' = best.score
                 /\ scored' = Append(scored, [html |-> html, score |-> score])
                 /\ accept_html' = IF score >= acceptance_threshold /\ html # ""
                                   THEN html ELSE accept_html
                 /\ failures' = failures
       \/ \* the evaluator call raised
          LET upd == EvaluatorError(html, best_score_so_far, best_html_so_far)
          IN  /\ evaluator_score' = Score(upd.evaluator_score)
              /\ evaluator_feedback' = upd.evaluator_feedback
              /\ best_html_so_far' = upd.best_html_so_far
              /\ best_score_so_far' = upd.best_score_so_far
              /\ UNCHANGED <<scored, accept_html>>
              /\ failures' = failures + 1
    /\ pc' = check_evaluation_score(evaluator_score'[1])
    /\ entered_by' = IF pc' = "moderator" THEN "reject" ELSE entered_by
    /\ steps' = steps + 1
    /\ UNCHANGED <<others, config, run_inputs, html, content_generation_outcome, validation_outcome,
                   current_retry_count, max_retries_reached, result, runs,
                   gen_calls, ended_by>>

\* ---------------------------------------------------- prepare_final_output
prepare_final_output_action ==
    /\ CanStep("prepare_final_output")
    /\ html' = best_html_so_far
    /\ evaluator_score' = Score(best_score_so_far)
    /\ pc' = "END"
    /\ steps' = steps + 1
    /\ UNCHANGED <<others, config, run_inputs, content_generation_outcome, validation_outcome,
                   evaluator_feedback, current_retry_count, best_html_so_far,
                   best_score_so_far, max_retries_reached, result, history>>

\* ================================================================ ApplyAgent
\* everything an ApplyAgent step leaves alone
not_apply_agent == <<unit, html_agent_vars, apply_tool_vars, chunk_db_vars,
                    pointer_manager_vars, content_agent_vars,
    manager_agent_vars,
    legacy_vars>>

\* a node of the apply graph may execute
ApplyCanStep(node) == aa_pc = node /\ aa_steps < ApplyRecursionLimit

\* run(): graph.invoke(initial_state, config); the graph has no checkpointer,
\* so the state of a run is initial_state
ApplyRunStart ==
    /\ unit = "ApplyAgent"
    /\ aa_pc = "idle"
    /\ apply_type' \in ApplyTypeArguments
    /\ aa_chunk_html' \in ChunkHtmlArguments
    /\ apply_outcome' = "N/A"
    /\ data_position_id_start' = NoPosition
    /\ data_position_id_end' = NoPosition
    /\ aa_current_retry_count' = 0
    /\ aa_max_retries_reached' = FALSE
    /\ aa_pc' = "moderator"
    /\ aa_steps' = 0
    /\ aa_entered_by' = "start"
    /\ UNCHANGED <<not_apply_agent, aa_config, aa_result, decider_calls,
                   decider_failures, last_reply, apply_requests, nodes_run,
                   aa_ended_by>>

\* State declares no "error" key, so the update {"error": ...} the moderator
\* returns for an invalid apply_type is not stored and state.get("error") is
\* None in decide_moderator_next_step
StateGetError == None

apply_decide_moderator_next_step(error, reached) ==
    IF error # None THEN "handle_error"
    ELSE IF reached THEN "handle_error"
    ELSE "location_decider"

apply_moderator_action ==
    /\ ApplyCanStep("moderator")
    /\ IF apply_type \notin ApplyTypeMembers
       THEN UNCHANGED <<aa_current_retry_count, aa_max_retries_reached>>
       ELSE IF aa_current_retry_count > aa_max_retries
       THEN /\ aa_max_retries_reached' = TRUE
            /\ aa_current_retry_count' = aa_current_retry_count
       ELSE /\ aa_current_retry_count' = aa_current_retry_count + 1
            /\ aa_max_retries_reached' = FALSE
    /\ aa_pc' = apply_decide_moderator_next_step(StateGetError, aa_max_retries_reached')
    /\ aa_steps' = aa_steps + 1
    /\ nodes_run' = nodes_run \cup {"moderator"}
    /\ UNCHANGED <<not_apply_agent, aa_config, apply_type, aa_chunk_html, apply_outcome,
                   data_position_id_start, data_position_id_end, aa_result,
                   decider_calls, decider_failures, last_reply, apply_requests,
                   aa_entered_by, aa_ended_by>>

\* what location_decider makes of a model reply: json.loads succeeds on any
\* JSON object and a missing position key reads as "-1"; text that is not
\* JSON, JSON that is not an object, and a raising model call give 'error'
DeciderUpdate(reply, old_start, old_end) ==
    IF reply.kind = "object"
    THEN [outcome |-> "success",
          start |-> IF reply.start = Absent THEN NoPosition ELSE reply.start,
          end   |-> IF reply.end = Absent THEN NoPosition ELSE reply.end]
    ELSE [outcome |-> "error", start |-> old_start, end |-> old_end]

\* variant: an error of location_decider goes on to the apply request
AfterLocationDecider_Always(checked) == "send_apply_request"

\* the edges after location_decider
AfterLocationDecider(checked) ==
    IF checked = "success" THEN "send_apply_request" ELSE "moderator"

location_decider_action ==
    /\ ApplyCanStep("location_decider")
    /\ \E reply \in DeciderReplies :
          LET update == DeciderUpdate(reply, data_position_id_start,
                                      data_position_id_end)
          IN  /\ last_reply' = reply
              /\ apply_outcome' = update.outcome
              /\ data_position_id_start' = update.start
              /\ data_position_id_end' = update.end
    /\ decider_calls' = decider_calls + 1
    /\ decider_failures' = IF apply_outcome' = "error" THEN decider_failures + 1
                           ELSE decider_failures
    /\ aa_pc' = AfterLocationDecider(apply_outcome')
    /\ aa_entered_by' = IF apply_outcome' = "error" THEN "decider_error"
                        ELSE aa_entered_by
    /\ aa_steps' = aa_steps + 1
    /\ nodes_run' = nodes_run \cup {"location_decider"}
    /\ UNCHANGED <<not_apply_agent, aa_config, apply_type, aa_chunk_html,
                   aa_current_retry_count, aa_max_retries_reached, aa_result,
                   apply_requests, aa_ended_by>>

\* the payload request_apply hands to the queue and to interrupt()
interrupt_payload(type, chunk, start, end) ==
    [action |-> type, chunk_html |-> chunk,
     data_position_id_start |-> start, data_position_id_end |-> end]

\* run() invokes the graph with initial_state only, never with a resume
\* command, and the graph is compiled without a checkpointer to resume from:
\* interrupt() finds no resume value in an invocation of run()
ResumeValue == NoResume

\* the edges after send_apply_request
AfterSendApplyRequest(checked) ==
    IF checked = "success" THEN "END" ELSE "handle_error"

\* request_apply builds the payload (apply_type.value), puts it on self.queue,
\* an attribute __init__ does not set, and calls interrupt(payload), which
\* raises GraphInterrupt unless the invocation carries a resume value
request_apply ==
    /\ ApplyCanStep("send_apply_request")
    /\ IF apply_type \notin ApplyTypeMembers \/ aa_queue = "unset"
       THEN \* AttributeError
            /\ aa_pc' = "raised"
            /\ UNCHANGED <<apply_requests, apply_outcome>>
       ELSE /\ apply_requests' =
                  Append(apply_requests,
                         interrupt_payload(apply_type, aa_chunk_html,
                                           data_position_id_start,
                                           data_position_id_end))
            /\ IF ResumeValue = NoResume
               THEN /\ aa_pc' = "interrupted"
                    /\ UNCHANGED apply_outcome
               ELSE /\ apply_outcome' = ResumeValue.status
                    /\ aa_pc' = AfterSendApplyRequest(apply_outcome')
    /\ aa_steps' = aa_steps + 1
    /\ nodes_run' = nodes_run \cup {"send_apply_request"}
    /\ UNCHANGED <<not_apply_agent, aa_config, apply_type, aa_chunk_html,
                   data_position_id_start, data_position_id_end,
                   aa_current_retry_count, aa_max_retries_reached, aa_result,
                   decider_calls, decider_failures, last_reply, aa_entered_by,
                   aa_ended_by>>

\* handle_error returns "result", which State does not declare, and a message
handle_error_action ==
    /\ ApplyCanStep("handle_error")
    /\ aa_pc' = "END"
    /\ aa_steps' = aa_steps + 1
    /\ nodes_run' = nodes_run \cup {"handle_error"}
    /\ UNCHANGED <<not_apply_agent, aa_config, aa_fields, aa_result, decider_calls,
                   decider_failures, last_reply, apply_requests, aa_entered_by,
                   aa_ended_by>>

\* the response run() builds from the state graph.invoke returned
ApplyRunResponse(final_outcome, final_start, final_end) ==
    [status |-> IF final_outcome # "success" THEN "error" ELSE "success",
     data_position_id_start |-> final_start,
     data_position_id_end |-> final_end]

\* the response run() builds in its except branch: status and message only
ApplyExceptionResponse ==
    [status |-> "error", data_position_id_start |-> Absent,
     data_position_id_end |-> Absent]

\* run(): the graph reached END within the step budget
ApplyRunReturn ==
    /\ aa_pc = "END"
    /\ aa_steps < ApplyRecursionLimit
    /\ aa_result' = ApplyRunResponse(apply_outcome, data_position_id_start,
                                     data_position_id_end)
    /\ aa_ended_by' = IF "handle_error" \in nodes_run THEN "handle_error" ELSE "end"
    /\ aa_pc' = "done"
    /\ UNCHANGED <<not_apply_agent, aa_config, aa_fields, aa_steps, decider_calls,
                   decider_failures, last_reply, apply_requests, nodes_run,
                   aa_entered_by>>

\* run(): graph.invoke raised: a node raised, the step budget is used up
\* (GraphRecursionError), or the graph runs inside a node of a parent graph
\* and the GraphInterrupt of request_apply passes through run()
ApplyRunException ==
    /\ \/ aa_pc = "raised"
       \/ aa_pc \notin {"idle", "done", "raised"} /\ aa_steps = ApplyRecursionLimit
       \/ aa_pc = "interrupted" /\ aa_nested
    /\ aa_result' = ApplyExceptionResponse
    /\ aa_ended_by' = "exception"
    /\ aa_pc' = "done"
    /\ UNCHANGED <<not_apply_agent, aa_config, aa_fields, aa_steps, decider_calls,
                   decider_failures, last_reply, apply_requests, nodes_run,
                   aa_entered_by>>

\* run(): the graph is the root graph and stopped at the interrupt of
\* request_apply; graph.invoke returns the state reached before that node
ApplyRunInterrupted ==
    /\ aa_pc = "interrupted"
    /\ ~aa_nested
    /\ aa_steps < ApplyRecursionLimit
    /\ aa_result' = ApplyRunResponse(apply_outcome, data_position_id_start,
                                     data_position_id_end)
    /\ aa_ended_by' = "interrupt"
    /\ aa_pc' = "done"
    /\ UNCHANGED <<not_apply_agent, aa_config, aa_fields, aa_steps, decider_calls,
                   decider_failures, last_reply, apply_requests, nodes_run,
                   aa_entered_by>>

\* ================================================================= ApplyTool
not_apply_tool == <<unit, html_agent_vars, apply_agent_vars, chunk_db_vars,
                   pointer_manager_vars, content_agent_vars,
    manager_agent_vars,
    legacy_vars>>

\* str.upper() on the type arguments
upper(type) ==
    IF type = "insert" THEN "INSERT"
    ELSE IF type = "c1" THEN "C1"
    ELSE IF type = "c2" THEN "C2"
    ELSE type

\* variant: only INSERT loads the chunk
needs_chunk_InsertOnly(type) == upper(type) = "INSERT"

\* the types whose chunk apply() loads from the store
needs_chunk(type) == upper(type) = "INSERT" \/ upper(type) = "EDIT"

\* ContentChunkDB.load_content_chunk: the row, or None
load_content_chunk(id) ==
    IF id \in DOMAIN content_db THEN content_db[id] ELSE Missing

\* ApplyTool.get_prompt: one template per known type, and for any other type
\* the text "Unknown apply type: ..." is the prompt
get_prompt(type, chunk_html) ==
    IF upper(type) = "INSERT" THEN [template |-> "INSERT", chunk_html |-> chunk_html]
    ELSE IF upper(type) = "DELETE" THEN [template |-> "DELETE", chunk_html |-> ""]
    ELSE IF upper(type) = "EDIT" THEN [template |-> "EDIT", chunk_html |-> chunk_html]
    ELSE [template |-> "Unknown apply type", chunk_html |-> ""]

\* the three fence strippings of apply(), in the order of the code
strip_fences(content) ==
    LET a == IF Len(content) > 0 /\ Head(content) = FenceJson
             THEN Tail(content) ELSE content
        b == IF Len(a) > 0 /\ Head(a) = Fence THEN Tail(a) ELSE a
    IN  IF Len(b) > 0 /\ b[Len(b)] = Fence THEN SubSeq(b, 1, Len(b) - 1) ELSE b

\* json.loads: one JSON document and nothing else, or it raises
json_loads(text) ==
    IF text = <<JsonText>>
    THEN [error |-> << >>, position_id |-> "p1"]
    ELSE [error |-> <<"Failed to parse LLM response: ", "JSONDecodeError">>,
          position_id |-> Absent]

\* the body of ApplyTool.apply for one call: the first positional argument is
\* chunk_id, the second is type
ApplyCall(chunk_id, type, reply) ==
    LET chunk == load_content_chunk(chunk_id)
        chunk_html == IF needs_chunk(type) /\ chunk # Missing THEN chunk ELSE ""
    IN  /\ tool_call' = [chunk_id |-> chunk_id, type |-> type]
        /\ tool_sent' = IF websocket THEN 1 ELSE 0
        /\ IF needs_chunk(type) /\ chunk = Missing
           THEN /\ tool_result' =
                      [error |-> <<"Chunk with id ", chunk_id, " not found.">>,
                       position_id |-> Absent]
                /\ tool_prompt' = NoPrompt
                /\ tool_reply' = NoModelReply
                /\ tool_model_calls' = 0
                /\ tool_raised' = FALSE
           ELSE /\ tool_prompt' = get_prompt(type, chunk_html)
                /\ tool_reply' = reply
                /\ tool_model_calls' = 1
                /\ IF reply.raises
                   THEN \* model.invoke is called before the try block
                        /\ tool_raised' = TRUE
                        /\ tool_result' = NoToolResult
                   ELSE /\ tool_raised' = FALSE
                        /\ tool_result' = json_loads(strip_fences(reply.content))

\* ApplyTool.apply(chunk_id, type, document_structure, last_prompt)
apply ==
    /\ unit = "ApplyTool"
    /\ \E chunk_id \in ChunkIds, type \in ToolTypeArguments, reply \in ModelReplies :
          ApplyCall(chunk_id, type, reply)
    /\ UNCHANGED <<not_apply_tool, content_db, websocket>>

\* ============================================================== ManagerAgent
not_manager_agent == <<unit, html_agent_vars, apply_agent_vars, chunk_db_vars,
                      pointer_manager_vars, content_agent_vars, websocket,
    legacy_vars>>
manager_tool_vars == <<tool_call, tool_prompt, tool_reply, tool_model_calls,
                      tool_sent, tool_result, tool_raised>>

\* the agent node has chosen a tool and the tools node runs it
ManagerCanCall == unit = "ManagerAgent" /\ mgr_pc = "agent" /\ mgr_turns < MaxTurns

\* ManagerAgent.run_prompt: agent.invoke(payload) on thread "2"
run_prompt ==
    /\ unit = "ManagerAgent"
    /\ mgr_pc \in {"idle", "done", "raised"}
    /\ mgr_pc' = "agent"
    /\ mgr_turns' = 0
    /\ mgr_puts' = 0
    /\ suspended_at' = "none"
    /\ mgr_tool_message' = NoToolMessage
    /\ UNCHANGED <<not_manager_agent, manager_tool_vars, content_db, mgr_queue,
                   mgr_apply_call>>

\* the agent node answers without a tool call: the graph ends and run_prompt
\* returns the last message
final_answer ==
    /\ unit = "ManagerAgent"
    /\ mgr_pc = "agent"
    /\ mgr_pc' = "done"
    /\ UNCHANGED <<not_manager_agent, manager_tool_vars, content_db, mgr_queue,
                   mgr_turns, mgr_puts, suspended_at, mgr_tool_message,
                   mgr_apply_call>>

\* ManagerAgent.read_document, first execution: the payload goes on the queue
\* and interrupt() finds no resume value, so the graph is checkpointed and the
\* invoke of run_prompt returns
read_document ==
    /\ ManagerCanCall
    /\ mgr_puts' = IF mgr_queue THEN mgr_puts + 1 ELSE mgr_puts
    /\ mgr_pc' = "suspended"
    /\ suspended_at' = "read_document"
    /\ mgr_turns' = mgr_turns + 1
    /\ mgr_tool_message' = NoToolMessage
    /\ UNCHANGED <<not_manager_agent, manager_tool_vars, content_db, mgr_queue,
                   mgr_apply_call>>

\* ManagerAgent.handle_client_tool_response: for the tool names read_document
\* and apply the graph is invoked with Command(resume=...): the suspended tool
\* runs again from its first line, interrupt() returns the resume value, and the
\* tool hands the content to the agent; any other tool name does nothing
handle_client_tool_response ==
    /\ unit = "ManagerAgent"
    /\ mgr_pc = "suspended"
    /\ \E tool_name \in ClientToolNames :
          IF tool_name \in {"read_document", "apply"}
          THEN /\ mgr_puts' = IF mgr_queue THEN mgr_puts + 1 ELSE mgr_puts
               /\ mgr_pc' = "agent"
               /\ suspended_at' = "none"
               /\ mgr_tool_message' = [tool |-> suspended_at, status |-> "content",
                                       message |-> << >>]
          ELSE UNCHANGED <<mgr_puts, mgr_pc, suspended_at, mgr_tool_message>>
    /\ UNCHANGED <<not_manager_agent, manager_tool_vars, content_db, mgr_queue,
                   mgr_turns, mgr_apply_call>>

\* ManagerAgent.generate_content: content_agent.run(prompt) returns; the chunks
\* it generated are new rows of the chunk store
generate_content ==
    /\ ManagerCanCall
    /\ \E new \in SUBSET {c \in ChunkIds : content_db[c] = Missing} :
          /\ content_db' = [c \in ChunkIds |->
                               IF c \in new THEN "<p>chunk</p>" ELSE content_db[c]]
          /\ mgr_tool_message' =
                [tool |-> "generate_content",
                 status |-> IF new = {} THEN "no chunks" ELSE "chunks",
                 message |-> << >>]
    /\ mgr_turns' = mgr_turns + 1
    /\ UNCHANGED <<not_manager_agent, manager_tool_vars, mgr_queue, mgr_pc,
                   mgr_puts, suspended_at, mgr_apply_call>>

\* what apply_tool_func makes of the result of apply: an error dict, or the
\* "message" key of the result, which the JSON of the reply does not have
apply_tool_status(raised, res) ==
    IF raised THEN "raised"
    ELSE IF res.error # << >> THEN "error"
    ELSE "raised: KeyError message"

\* the call apply_tool_func makes: self.apply_tool.apply(type, chunk_id, ...)
\* with positional arguments, against apply(self, chunk_id, type, ...)
PassToApply(type, chunk_id, reply) == ApplyCall(type, chunk_id, reply)

\* ManagerAgent.apply_tool_func(type, chunk_id): it calls
\* apply_tool.apply(type, chunk_id, document_structure, last_prompt), so type is
\* bound to the chunk_id parameter of apply and chunk_id to its type parameter;
\* an exception of the tool is either turned into a tool message by the tools
\* node or leaves the invoke of run_prompt
apply_tool_func ==
    /\ ManagerCanCall
    /\ \E type \in ManagerTypeArguments, chunk_id \in ChunkIds \cup {""},
          reply \in ManagerModelReplies :
          /\ mgr_apply_call' = [type |-> type, chunk_id |-> chunk_id]
          /\ PassToApply(type, chunk_id, reply)
    /\ mgr_tool_message' =
          [tool |-> "apply_tool_func",
           status |-> apply_tool_status(tool_raised', tool_result'),
           message |-> IF tool_raised' THEN << >> ELSE tool_result'.error]
    /\ mgr_pc' \in IF mgr_tool_message'.status = "error"
                   THEN {"agent"} ELSE {"agent", "raised"}
    /\ mgr_turns' = mgr_turns + 1
    /\ UNCHANGED <<not_manager_agent, content_db, mgr_queue, mgr_puts, suspended_at>>

\* ============================================================ ContentChunkDB
not_chunk_db == <<unit, html_agent_vars, apply_agent_vars, apply_tool_vars,
                 pointer_manager_vars, content_agent_vars,
    manager_agent_vars,
    legacy_vars>>

\* variant: INSERT OR IGNORE, a second save of an id is dropped
insert_or_replace_Ignore(table, chunk) ==
    IF chunk.id \in DOMAIN table THEN table
    ELSE [i \in DOMAIN table \cup {chunk.id} |->
             IF i = chunk.id THEN chunk ELSE table[i]]

\* INSERT OR REPLACE INTO content_chunks, id being the primary key
insert_or_replace(table, chunk) ==
    [i \in DOMAIN table \cup {chunk.id} |->
        IF i = chunk.id THEN chunk ELSE table[i]]

\* _add_to_cache: newest first, cut to max_cache_size
add_to_cache(cache, chunk, size) ==
    LET longer == <<chunk>> \o cache
    IN  IF Len(longer) > size THEN SubSeq(longer, 1, size) ELSE longer

\* the effect of ContentChunkDB.save_content_chunk(chunk)
SaveEffect(chunk) ==
    /\ content_chunks' = insert_or_replace(content_chunks, chunk)
    /\ recent_chunks' = add_to_cache(recent_chunks, chunk, max_cache_size)
    /\ saved' = Append(saved, chunk)

save_content_chunk ==
    /\ unit = "ContentChunkDB"
    /\ Len(saved) < MaxSaves
    /\ \E chunk \in SavedChunks : SaveEffect(chunk)
    /\ UNCHANGED <<not_chunk_db, max_cache_size>>

\* ContentChunkDB.load_content_chunk(id): SELECT ... WHERE id = ?, the row
\* rebuilt as a ContentChunk, or None
db_load_content_chunk(id) ==
    IF id \in DOMAIN content_chunks
    THEN ContentChunk(content_chunks[id].html, content_chunks[id].position_guideline,
                      content_chunks[id].id, content_chunks[id].status)
    ELSE None

\* ============================================================ PointerManager
not_pointer_manager == <<unit, html_agent_vars, apply_agent_vars, apply_tool_vars,
                         chunk_db_vars, content_agent_vars,
    manager_agent_vars,
    legacy_vars>>

\* variant: the pointer with the same id stays in the window
without_Nothing(window, pid) == window

\* deque(p for p in window if p.get_id() != pid, maxlen)
without(window, pid) == SelectSeq(window, LAMBDA p : p.id # pid)

\* deque.append on a deque of maxlen m: a full deque drops its left end
deque_append(window, ptr, m) ==
    IF Len(window) >= m THEN SubSeq(window, Len(window) - m + 2, Len(window)) \o <<ptr>>
    ELSE window \o <<ptr>>

\* deque.appendleft on a deque of maxlen m: a full deque drops its right end
deque_appendleft(window, ptr, m) ==
    IF Len(window) >= m THEN <<ptr>> \o SubSeq(window, 1, m - 1)
    ELSE <<ptr>> \o window

\* PointerManager.add(ptr, to_front=False)
add ==
    /\ unit = "PointerManager"
    /\ \E ptr \in Pointers, to_front \in BOOLEAN :
          /\ pm_store' = [i \in DOMAIN pm_store \cup {ptr.id} |->
                             IF i = ptr.id THEN ptr ELSE pm_store[i]]
          /\ pm_window' = IF to_front
                          THEN deque_appendleft(without(pm_window, ptr.id), ptr, pm_maxlen)
                          ELSE deque_append(without(pm_window, ptr.id), ptr, pm_maxlen)
          /\ pm_last' = [op |-> "add", id |-> ptr.id, flag |-> to_front,
                         returned |-> None]
          /\ pm_default_adds_only' = (pm_default_adds_only /\ ~to_front)
    /\ UNCHANGED <<not_pointer_manager, pm_maxlen, pm_deleted>>

\* PointerManager.remove(pid, delete_from_db=True)
remove ==
    /\ unit = "PointerManager"
    /\ \E pid \in PointerIds, delete_from_db \in BOOLEAN :
          IF pid \notin DOMAIN pm_store
          THEN /\ pm_last' = [op |-> "remove", id |-> pid, flag |-> delete_from_db,
                              returned |-> FALSE]
               /\ UNCHANGED <<pm_store, pm_window, pm_deleted>>
          ELSE /\ pm_store' = [i \in DOMAIN pm_store \ {pid} |-> pm_store[i]]
               /\ pm_deleted' = IF delete_from_db THEN pm_deleted \cup {pid}
                                ELSE pm_deleted
               /\ pm_window' = without(pm_window, pid)
               /\ pm_last' = [op |-> "remove", id |-> pid, flag |-> delete_from_db,
                              returned |-> TRUE]
    /\ pm_default_adds_only' = FALSE
    /\ UNCHANGED <<not_pointer_manager, pm_maxlen>>

\* PointerManager.recent(): list(self._window)
recent == pm_window

\* ============================================================== ContentAgent
not_content_agent == <<unit, html_agent_vars, apply_agent_vars, apply_tool_vars,
                       pointer_manager_vars, max_cache_size,
    manager_agent_vars,
    legacy_vars>>

\* uuid.uuid4() of a new ContentChunk: an id no chunk has had
uuid4 == Len(saved) + 1

\* ContentChunk.to_dict()
to_dict(chunk) == [status |-> chunk.status, chunk_id |-> chunk.id, html |-> chunk.html]

\* variant: the chunk is PENDING with the returned html whatever the status
chunk_of_result_AlwaysPending(res, id) == ContentChunk(res.html, "", id, "PENDING")

\* the chunk run_html_agent builds from the result of HtmlAgent.run
chunk_of_result(res, id) ==
    IF res.status = "success"
    THEN ContentChunk(res.html, "", id, "PENDING")
    ELSE ContentChunk(ErrGeneratingContent, "", id, "ERROR")

\* run_html_agent, from the return of self.html_agent.run to its own return:
\* the chunk is saved and its dict appended to generated_chunks
run_html_agent ==
    /\ unit = "ContentAgent"
    /\ ca_pc = "in_run"
    /\ pc = "done"
    /\ LET chunk == chunk_of_result(result, uuid4)
       IN  /\ SaveEffect(chunk)
           /\ generated_chunks' = Append(generated_chunks, to_dict(chunk))
    /\ ca_pc' = "idle"
    /\ UNCHANGED <<not_content_agent, ca_calls>>

\* run_html_agent when self.html_agent.run raises instead of returning: the
\* except branch saves an ERROR chunk and appends its dict
run_html_agent_exception ==
    /\ unit = "ContentAgent"
    /\ ca_pc = "idle"
    /\ ca_calls < MaxRuns
    /\ ca_calls' = ca_calls + 1
    /\ LET error_chunk == ContentChunk(ErrExceptionOccurred, "", uuid4, "ERROR")
       IN  /\ SaveEffect(error_chunk)
           /\ generated_chunks' = Append(generated_chunks, to_dict(error_chunk))
    /\ UNCHANGED <<not_content_agent, ca_pc>>

\* ------------------------------------------------------------ the system
\* ========================================================== legacy HtmlAgent
not_legacy == <<unit, html_agent_vars, apply_agent_vars, apply_tool_vars,
               chunk_db_vars, pointer_manager_vars, content_agent_vars,
               manager_agent_vars>>

\* a node of the legacy graph may execute
LegacyCanStep(node) ==
    unit = "LegacyHtmlAgent" /\ lg_pc = node /\ lg_steps < LegacyRecursionLimit

\* run(): graph.invoke(initial_state, self.config) merges initial_state into
\* the checkpoint of thread "1"; the keys it does not name keep their values
LegacyRunStart ==
    /\ unit = "LegacyHtmlAgent"
    /\ lg_pc \in {"idle", "done"}
    /\ lg_runs < MaxLegacyRuns
    /\ lg_runs' = lg_runs + 1
    /\ lg_html' = ""
    /\ lg_current_retry_count' = 0
    /\ lg_best_html_so_far' = ""
    /\ lg_best_score_so_far' = InitialBestScore
    /\ lg_max_retries_reached' = FALSE
    /\ lg_pc' = "moderator"
    /\ lg_steps' = 0
    /\ lg_result' = "none"
    /\ lg_gen_calls' = 0
    /\ lg_gen_failures' = 0
    /\ lg_entered_by' = "start"
    /\ lg_ended_by' = "none"
    /\ UNCHANGED <<not_legacy, lg_config, lg_content_generation_outcome,
                   lg_validation_outcome, lg_evaluator_score, lg_evaluator_feedback>>

\* is_retry of the legacy moderator_action
legacy_is_retry(score, outcome) == (score # NoScore) \/ (outcome = "error")

legacy_decide_moderator_next_step(reached) ==
    IF reached THEN "prepare_final_output" ELSE "content_generator"

legacy_moderator_action ==
    /\ LegacyCanStep("moderator")
    /\ LET current_retries ==
               IF legacy_is_retry(lg_evaluator_score, lg_validation_outcome)
               THEN lg_current_retry_count + 1
               ELSE lg_current_retry_count
       IN  IF current_retries > lg_max_retries
           THEN /\ lg_max_retries_reached' = TRUE
                /\ lg_current_retry_count' = current_retries - 1
                /\ UNCHANGED <<lg_html, lg_evaluator_score, lg_evaluator_feedback,
                               lg_content_generation_outcome, lg_validation_outcome>>
           ELSE /\ lg_html' = ""
                /\ lg_evaluator_score' = NoScore
                /\ lg_evaluator_feedback' = None
                /\ lg_content_generation_outcome' = None
                /\ lg_validation_outcome' = None
                /\ lg_current_retry_count' = current_retries
                /\ lg_max_retries_reached' = FALSE
    /\ lg_pc' = legacy_decide_moderator_next_step(lg_max_retries_reached')
    /\ lg_steps' = lg_steps + 1
    /\ UNCHANGED <<not_legacy, lg_config, lg_best_html_so_far, lg_best_score_so_far,
                   lg_result, lg_history>>

legacy_check_content_generation_outcome(generation_outcome) ==
    IF generation_outcome = "success" THEN "html_validator_node"
    ELSE "handle_content_error"

legacy_content_generator_action ==
    /\ LegacyCanStep("content_generator")
    /\ \/ \E generated_html \in LegacyGeneratorOutputs :
             /\ lg_html' = generated_html
             /\ lg_content_generation_outcome' = "success"
             /\ lg_gen_failures' = lg_gen_failures
       \/ \* the generator call raised
          /\ lg_html' = ErrDuringGeneration
          /\ lg_content_generation_outcome' = "error"
          /\ lg_gen_failures' = lg_gen_failures + 1
    /\ lg_gen_calls' = lg_gen_calls + 1
    /\ lg_pc' = legacy_check_content_generation_outcome(lg_content_generation_outcome')
    /\ lg_steps' = lg_steps + 1
    /\ UNCHANGED <<not_legacy, lg_config, lg_validation_outcome, lg_evaluator_score,
                   lg_evaluator_feedback, lg_current_retry_count,
                   lg_best_html_so_far, lg_best_score_so_far,
                   lg_max_retries_reached, lg_result, lg_runs, lg_entered_by,
                   lg_ended_by>>

legacy_handle_content_error_action ==
    /\ LegacyCanStep("handle_content_error")
    /\ lg_html' = ErrContentProcessing
    /\ lg_pc' = "moderator"
    /\ lg_entered_by' = "generator_error"
    /\ lg_steps' = lg_steps + 1
    /\ UNCHANGED <<not_legacy, lg_config, lg_content_generation_outcome,
                   lg_validation_outcome, lg_evaluator_score, lg_evaluator_feedback,
                   lg_current_retry_count, lg_best_html_so_far,
                   lg_best_score_so_far, lg_max_retries_reached, lg_result,
                   lg_runs, lg_gen_calls, lg_gen_failures, lg_ended_by>>

legacy_html_validator_action ==
    /\ LegacyCanStep("html_validator_node")
    /\ IF lg_html = ""
       THEN /\ lg_validation_outcome' = "error"
            /\ lg_html' = lg_html
       ELSE \/ LET validation_result == validate_and_repair(lg_html)
               IN  /\ lg_validation_outcome' = validation_result.status
                   /\ lg_html' = validation_result.html
            \/ \* the validator raised
               /\ lg_validation_outcome' = "error"
               /\ lg_html' = lg_html
    /\ lg_pc' = IF lg_validation_outcome' = "success" THEN "evaluator" ELSE "moderator"
    /\ lg_entered_by' = IF lg_validation_outcome' = "error" THEN "validation_error"
                        ELSE lg_entered_by
    /\ lg_steps' = lg_steps + 1
    /\ UNCHANGED <<not_legacy, lg_config, lg_content_generation_outcome,
                   lg_evaluator_score, lg_evaluator_feedback, lg_current_retry_count,
                   lg_best_html_so_far, lg_best_score_so_far,
                   lg_max_retries_reached, lg_result, lg_runs, lg_gen_calls,
                   lg_gen_failures, lg_ended_by>>

legacy_evaluator_action ==
    /\ LegacyCanStep("evaluator")
    /\ \/ \E score \in LegacyEvaluatorScores :
             /\ lg_evaluator_score' = Score(score)
             /\ lg_evaluator_feedback' = "feedback"
             /\ lg_best_html_so_far' =
                   IF score > lg_best_score_so_far THEN lg_html ELSE lg_best_html_so_far
             /\ lg_best_score_so_far' =
                   IF score > lg_best_score_so_far THEN score ELSE lg_best_score_so_far
       \/ \* the evaluator call raised
          /\ lg_evaluator_score' = Score(0)
          /\ lg_evaluator_feedback' = ErrDuringEvaluation
          /\ UNCHANGED <<lg_best_html_so_far, lg_best_score_so_far>>
    /\ lg_pc' = IF lg_evaluator_score'[1] >= lg_acceptance_threshold
                THEN "END" ELSE "moderator"
    /\ lg_entered_by' = IF lg_pc' = "moderator" THEN "reject" ELSE lg_entered_by
    /\ lg_steps' = lg_steps + 1
    /\ UNCHANGED <<not_legacy, lg_config, lg_html, lg_content_generation_outcome,
                   lg_validation_outcome, lg_current_retry_count,
                   lg_max_retries_reached, lg_result, lg_runs, lg_gen_calls,
                   lg_gen_failures, lg_ended_by>>

legacy_prepare_final_output_action ==
    /\ LegacyCanStep("prepare_final_output")
    /\ lg_html' = lg_best_html_so_far
    /\ lg_evaluator_score' = Score(lg_best_score_so_far)
    /\ lg_pc' = "END"
    /\ lg_steps' = lg_steps + 1
    /\ UNCHANGED <<not_legacy, lg_config, lg_content_generation_outcome,
                   lg_validation_outcome, lg_evaluator_feedback,
                   lg_current_retry_count, lg_best_html_so_far,
                   lg_best_score_so_far, lg_max_retries_reached, lg_result,
                   lg_history>>

\* the graph reached END within the recursion limit: run() returns the state
LegacyRunReturn ==
    /\ unit = "LegacyHtmlAgent"
    /\ lg_pc = "END"
    /\ lg_steps < LegacyRecursionLimit
    /\ lg_result' = "returned"
    /\ lg_ended_by' = IF lg_max_retries_reached THEN "ceiling" ELSE "accept"
    /\ lg_pc' = "done"
    /\ UNCHANGED <<not_legacy, lg_config, lg_fields, lg_steps, lg_runs, lg_gen_calls,
                   lg_gen_failures, lg_entered_by>>

\* the recursion limit is reached: graph.invoke raises GraphRecursionError and
\* run(), which has no try block, lets it pass to the caller
LegacyRunRecursionError ==
    /\ unit = "LegacyHtmlAgent"
    /\ lg_pc \notin {"idle", "done"}
    /\ lg_steps = LegacyRecursionLimit
    /\ lg_result' = "GraphRecursionError"
    /\ lg_ended_by' = "recursion"
    /\ lg_pc' = "done"
    /\ UNCHANGED <<not_legacy, lg_config, lg_fields, lg_steps, lg_runs, lg_gen_calls,
                   lg_gen_failures, lg_entered_by>>

Next ==
    \/ RunStart
    \/ moderator_action
    \/ content_generator_action
    \/ handle_content_error_action
    \/ html_validator_action
    \/ evaluator_action
    \/ prepare_final_output_action
    \/ RunReturn
    \/ RunRecursionError
    \/ ApplyRunStart
    \/ apply_moderator_action
    \/ location_decider_action
    \/ request_apply
    \/ handle_error_action
    \/ ApplyRunReturn
    \/ ApplyRunException
    \/ ApplyRunInterrupted
    \/ apply
    \/ save_content_chunk
    \/ add
    \/ remove
    \/ run_html_agent
    \/ run_html_agent_exception
    \/ run_prompt
    \/ final_answer
    \/ read_document
    \/ handle_client_tool_response
    \/ generate_content
    \/ apply_tool_func
    \/ LegacyRunStart
    \/ legacy_moderator_action
    \/ legacy_content_generator_action
    \/ legacy_handle_content_error_action
    \/ legacy_html_validator_action
    \/ legacy_evaluator_action
    \/ legacy_prepare_final_output_action
    \/ LegacyRunReturn
    \/ LegacyRunRecursionError

Spec == Init /\ [][Next]_vars

\* every step of a run is taken eventually: the graph is driven by one
\* synchronous invoke call
FairSpec == Spec /\ WF_vars(Next)


\* ===================================================================== claims
Running == pc \notin {"idle", "done"}
NodeStep == steps' = steps + 1
Success(h) == [status |-> "success", html |-> h]
\* the default prepare_final_output names for a missing best_html_so_far
NoSatisfactoryDefault == "<p><span>No satisfactory HTML generated.</span></p>"

\* C1: once the evaluator has returned a score >= acceptance_threshold for
\* non-empty validated html, no further node runs and run() returns status
\* 'success' with the html the validator returned on that attempt.
C1_AcceptEndsRunWithSuccess ==
    accept_html # NoHtml =>
        /\ pc \in {"END", "done"}
        /\ pc = "done" => result = Success(accept_html)

\* C2: run() returns 'success' only when the run ended through Accept; a run
\* that ended through the retry ceiling or the step-budget guard returns
\* 'error'.
C2_SuccessOnlyThroughAccept ==
    pc = "done" =>
        /\ result.status = "success" => ended_by = "accept"
        /\ ended_by \in {"ceiling", "recursion"} => result.status = "error"

\* C3: a run that ended through the retry ceiling returns best_html_so_far
\* when an attempt was scored (best_score_so_far >= 0) and the fixed 'no
\* satisfactory HTML generated' sentinel when no candidate ever existed.
C3_CeilingReturnsBestOrSentinel ==
    (pc = "done" /\ ended_by = "ceiling") =>
        IF best_score_so_far >= 0
        THEN result.html = best_html_so_far
        ELSE result.html \in {ErrNoSatisfactory, NoSatisfactoryDefault}

\* C4: one run invokes the content generator at most max_retries + 1 times.
C4_AtMostNPlusOneGenerations == gen_calls <= max_retries + 1

\* C5: best_score_so_far is -1 when a run starts and no step of the run
\* lowers it.
C5_BestScoreNeverDecreases ==
    /\ [](pc = "moderator" /\ steps = 0 => best_score_so_far = 0 - 1)
    /\ [][Running => best_score_so_far' >= best_score_so_far]_vars

\* C5 witness: a later attempt scored lower than the best and the run went on
C5_Witness ==
    /\ Len(scored) >= 2
    /\ scored[Len(scored)].score < best_score_so_far
    /\ best_score_so_far = scored[1].score
    /\ pc = "done"

\* C6: while best_score_so_far >= 0, best_html_so_far is the validated html
\* of the earliest scored attempt of the run whose score equals
\* best_score_so_far (a tie never replaces the best candidate).
C6_BestIsEarliestWithBestScore ==
    best_score_so_far >= 0 =>
        \E i \in 1..Len(scored) :
            /\ scored[i].score = best_score_so_far
            /\ scored[i].html = best_html_so_far
            /\ \A j \in 1..(i - 1) : scored[j].score # best_score_so_far
            /\ \A j \in 1..Len(scored) : scored[j].score <= best_score_so_far

\* C6 witness: two attempts tied on the best score with different html
C6_Witness ==
    /\ Len(scored) >= 2
    /\ scored[1].score = best_score_so_far
    /\ scored[2].score = best_score_so_far
    /\ scored[1].html # scored[2].html
    /\ best_html_so_far = scored[1].html

\* C7: a run executes at most 15 nodes and always ends with a {status, html}
\* result; when the step budget is used up the result is status 'error' with
\* the fixed sentinel html.
C7_RunTerminatesWithinBudget ==
    /\ [](/\ steps <= RecursionLimit
          /\ pc = "done" => result.status \in {"success", "error"}
          /\ ended_by = "recursion" =>
                result = [status |-> "error",
                          html |-> "<p><span>Error: No satisfactory HTML generated</span></p>"])
    /\ (Running ~> pc = "done")

\* C7 witness: a run was stopped by the step-budget guard after 15 nodes
C7_Witness == pc = "done" /\ ended_by = "recursion" /\ steps = RecursionLimit

\* C8: a generator exception goes through handle_content_error to the
\* moderator, a validator error or exception goes to the moderator, the
\* moderator pass that follows either raises current_retry_count by exactly
\* 1, and run() ends with a {status, html} result.
C8_FailuresAreRecoverable ==
    [][/\ (pc = "content_generator" /\ NodeStep
              /\ content_generation_outcome' = "error")
            => pc' = "handle_content_error"
       /\ (pc = "handle_content_error" /\ NodeStep) => pc' = "moderator"
       /\ (pc = "html_validator_node" /\ NodeStep /\ validation_outcome' = "error")
            => pc' = "moderator"
       /\ (pc = "moderator" /\ NodeStep
              /\ entered_by \in {"generator_error", "validation_error"})
            => current_retry_count' = current_retry_count + 1
       /\ pc' = "done" => result'.status \in {"success", "error"}]_vars

\* C8 witness: a run saw a generator exception and a validator error, the
\* moderator counted both, and the run returned
C8_Witness ==
    /\ pc = "done"
    /\ failures >= 2
    /\ entered_by = "validation_error"
    /\ current_retry_count >= 3
    /\ gen_calls >= 2

\* C9: once max_retries_reached is true in a run it stays true, and no node
\* but prepare_final_output runs before the run ends.
C9_MaxRetriesReachedIsTerminal ==
    [][(Running /\ max_retries_reached) =>
          /\ max_retries_reached'
          /\ gen_calls' = gen_calls
          /\ NodeStep => (pc = "prepare_final_output" /\ pc' = "END")
          /\ pc' \in {"prepare_final_output", "END", "done"}]_vars

\* C9 witness: a run ended through the retry ceiling after generating
C9_Witness ==
    pc = "done" /\ max_retries_reached /\ ended_by = "ceiling" /\ gen_calls >= 1

\* C10: when validation always succeeds and every evaluation returns the
\* same score below acceptance_threshold, the run makes exactly
\* max_retries + 1 generation attempts and ends through the retry ceiling
\* with status 'error' and the html of the first attempt.
C10_ConstantLowScoreStopsAtCeiling ==
    (/\ pc = "done"
     /\ failures = 0
     /\ Len(scored) >= 1
     /\ \A i \in 1..Len(scored) :
           scored[i].score = scored[1].score /\ scored[i].score < acceptance_threshold)
    => /\ gen_calls = max_retries + 1
       /\ ended_by = "ceiling"
       /\ result = [status |-> "error", html |-> scored[1].html]

\* C11: the first moderator pass of a run does not count as a retry:
\* current_retry_count is still 0 until a node has routed back to the
\* moderator after a failure or a low score.
C11_FirstPassIsNotARetry ==
    (Running /\ entered_by = "start") => current_retry_count = 0

\* C12: current_retry_count never exceeds max_retries.
C12_RetryCountWithinMaxRetries == current_retry_count <= max_retries

\* C13: a run on a used instance starts like a run on a fresh instance: its
\* first moderator pass sees none of the transient fields of an earlier run,
\* and so leaves the same retry count as the first pass on a fresh instance
\* (which always counts 1).
C13_RunsAreIndependent ==
    /\ (pc = "moderator" /\ steps = 0) =>
          /\ evaluator_score = NoScore
          /\ evaluator_feedback = None
          /\ validation_outcome = None
          /\ content_generation_outcome = None
    /\ (Running /\ entered_by = "start" /\ steps = 1) => current_retry_count = 1

\* ------------------------------------------------------- ApplyAgent claims
\* a run of the apply graph has started
ApplyRunning == aa_pc # "idle"

\* the location_decider node executes
DeciderStep == aa_pc = "location_decider" /\ decider_calls' = decider_calls + 1

\* the moderator of the apply graph executes
ApplyModeratorStep == aa_pc = "moderator" /\ aa_steps' = aa_steps + 1

\* C14: a run with an apply_type that is not an ApplyType member fails
\* immediately: the model is never invoked, location_decider does not run,
\* current_retry_count stays as it was, and the response has status 'error'
C14_InvalidTypeFailsImmediately ==
    (ApplyRunning /\ apply_type \notin ApplyTypeMembers) =>
        /\ decider_calls = 0
        /\ "location_decider" \notin nodes_run
        /\ aa_current_retry_count = 0
        /\ (aa_pc = "done" => aa_result.status = "error")

\* ------------------------------------------------------- ApplyTool claims
\* apply() has been called
ToolCalled == tool_call # NoCall

\* C15: apply() with a type other than INSERT, DELETE or EDIT returns the
\* error 'Invalid apply type: <type>' and does not invoke the model
C15_InvalidTypeIsRejected ==
    (ToolCalled /\ upper(tool_call.type) \notin {"INSERT", "DELETE", "EDIT"}) =>
        /\ ~tool_raised
        /\ tool_result.error = <<"Invalid apply type: ", tool_call.type>>
        /\ tool_model_calls = 0

\* the latest call was an INSERT or EDIT of a chunk the store does not have
MissingChunkCall ==
    /\ ToolCalled
    /\ upper(tool_call.type) \in {"INSERT", "EDIT"}
    /\ content_db[tool_call.chunk_id] = Missing

\* C16: apply() with type INSERT or EDIT and a chunk the store does not have
\* returns 'Chunk with id <chunk_id> not found.' with zero model invocations
\* and builds no prompt from empty content
C16_MissingChunkIsAnError ==
    MissingChunkCall =>
        /\ ~tool_raised
        /\ tool_result.error = <<"Chunk with id ", tool_call.chunk_id, " not found.">>
        /\ tool_model_calls = 0
        /\ tool_prompt = NoPrompt

C16_Witness ==
    /\ MissingChunkCall
    /\ tool_call.type = "EDIT"
    /\ tool_result.error = <<"Chunk with id ", tool_call.chunk_id, " not found.">>

\* C17: when the model call raises during apply(), apply() does not raise: it
\* returns a result whose error message contains 'Failed to parse LLM response'
C17_ModelErrorIsReturned ==
    (ToolCalled /\ tool_reply.raises) =>
        /\ ~tool_raised
        /\ Len(tool_result.error) > 0
        /\ tool_result.error[1] = "Failed to parse LLM response: "

\* C18: a model response that fails JSON parsing sets outcome 'error' and
\* returns to the moderator; the moderator pass that follows increases
\* current_retry_count by exactly 1 and, while the budget is not exhausted,
\* hands over to location_decider for one fresh model call
C18_MalformedReplyCostsOneRetry ==
    [][ /\ (DeciderStep /\ last_reply'.kind = "malformed") =>
              (apply_outcome' = "error" /\ aa_pc' = "moderator")
        /\ (ApplyModeratorStep /\ last_reply.kind = "malformed") =>
              /\ aa_current_retry_count' = aa_current_retry_count + 1
              /\ (aa_current_retry_count <= aa_max_retries =>
                     aa_pc' = "location_decider") ]_vars

\* C19: a model response that is a JSON object without 'data-position-id-start'
\* or 'data-position-id-end' gives outcome 'error' and goes back to the
\* moderator; it is never a successful decision
C19_MissingKeysAreAnError ==
    [][ (DeciderStep /\ last_reply'.kind = "object"
           /\ (last_reply'.start = Absent \/ last_reply'.end = Absent)) =>
              (apply_outcome' = "error" /\ aa_pc' = "moderator") ]_vars

\* C20: a finished run whose location_decider attempts all failed ended
\* through handle_error with status 'error', both positions '-1' in the
\* response, and send_apply_request never ran
C20_AllAttemptsFailedEndsInHandleError ==
    (aa_pc = "done" /\ decider_calls > 0 /\ decider_failures = decider_calls) =>
        /\ aa_ended_by = "handle_error"
        /\ aa_result.status = "error"
        /\ aa_result.data_position_id_start = NoPosition
        /\ aa_result.data_position_id_end = NoPosition
        /\ "send_apply_request" \notin nodes_run
        /\ apply_requests = << >>

\* ----------------------------------------------- HtmlAgent claims, continued
\* C29: the moderator pass that follows a Reject (an evaluation below
\* acceptance_threshold after a successful validation) increases
\* current_retry_count by exactly 1
C29_RejectCountsAsRetry ==
    [][ (pc = "moderator" /\ NodeStep /\ entered_by = "reject") =>
            current_retry_count' = current_retry_count + 1 ]_vars

\* C30: the validator is entered only from a generator that reported success,
\* the evaluator only from a validator that reported success, and the
\* generator only from a moderator pass
C30_GenerateValidateEvaluateInOrder ==
    [][ /\ (pc' = "html_validator_node" /\ pc' # pc) =>
              (pc = "content_generator" /\ content_generation_outcome' = "success")
        /\ (pc' = "evaluator" /\ pc' # pc) =>
              (pc = "html_validator_node" /\ validation_outcome' = "success")
        /\ (pc' = "content_generator" /\ pc' # pc) =>
              (pc = "moderator" /\ html' = "" /\ evaluator_score' = NoScore) ]_vars

C30_Witness ==
    /\ pc = "evaluator"
    /\ gen_calls = 2
    /\ entered_by = "reject"
    /\ Len(scored) = 1

\* ----------------------------------------------- ApplyAgent claims, continued
\* C21: a run returns status 'success' only when a decision was parsed and the
\* graph ended through the success edge of send_apply_request, the edge taken
\* when the resume payload reports status 'success'
C21_SuccessNeedsConfirmedApply ==
    (aa_pc = "done" /\ aa_result.status = "success") =>
        /\ last_reply.kind = "object"
        /\ aa_ended_by = "end"

\* the request the successful decision of the run calls for
DecidedRequest ==
    interrupt_payload(apply_type, aa_chunk_html,
                      DeciderUpdate(last_reply, NoPosition, NoPosition).start,
                      DeciderUpdate(last_reply, NoPosition, NoPosition).end)

\* C22: an apply request is emitted only after location_decider produced
\* outcome 'success', at most once per run, and it carries the apply type,
\* the chunk_html and the positions of that decision
C22_OneRequestCarryingTheDecision ==
    /\ Len(apply_requests) <= 1
    /\ apply_requests # << >> =>
          /\ last_reply.kind = "object"
          /\ decider_failures = decider_calls - 1
          /\ apply_requests[1] = DecidedRequest

C22_Witness ==
    /\ Len(apply_requests) = 1
    /\ decider_calls = 3
    /\ apply_requests[1].action = "EDIT"
    /\ apply_requests[1].chunk_html # ""
    /\ apply_requests[1].data_position_id_start = "p1"
    /\ apply_requests[1].data_position_id_end = "p2"

\* C23: after the apply request is emitted, and as long as no resume value
\* arrives, the workflow stays suspended at the apply step and run() produces
\* no final result
C23_SuspendedUntilResume ==
    (apply_requests # << >> /\ ResumeValue = NoResume) =>
        /\ aa_pc = "interrupted"
        /\ aa_result = NoApplyResult

\* C25: a successful decision for INSERT has data_position_id_start equal to
\* data_position_id_end
C25_InsertDecisionIsOneAnchor ==
    (aa_pc = "done" /\ apply_type = "INSERT" /\ aa_result.status = "success") =>
        aa_result.data_position_id_start = aa_result.data_position_id_end

\* ---------------------------------------------------- ContentChunkDB claims
\* the chunk of the most recent save for id, or None when id was never saved
RECURSIVE LastSaveFor(_, _)
LastSaveFor(log, id) ==
    IF log = << >> THEN None
    ELSE IF log[Len(log)].id = id THEN log[Len(log)]
    ELSE LastSaveFor(SubSeq(log, 1, Len(log) - 1), id)

\* C27: load_content_chunk(id) returns the html, position_guideline and status
\* of the most recent save for id, None for an id never saved, and a save for
\* one id leaves what load returns for every other id as it was
C27_LastWriteWinsPerId ==
    [][ /\ \A id \in DbIds : db_load_content_chunk(id)' = LastSaveFor(saved', id)
        /\ \A id \in DbIds :
              (saved' # saved /\ saved'[Len(saved')].id # id) =>
                  db_load_content_chunk(id)' = db_load_content_chunk(id) ]_vars

C27_Witness ==
    /\ Len(saved) = 3
    /\ saved[1].id = 1 /\ saved[2].id = 2 /\ saved[3].id = 1
    /\ saved[1].html # saved[3].html
    /\ db_load_content_chunk(1) = saved[3]
    /\ db_load_content_chunk(2) = saved[2]

\* ---------------------------------------------------- PointerManager claims
\* C28: after adds with default arguments only, the pointer added last comes
\* first in recent(), before the pointers added earlier
C28_RecentIsMostRecentFirst ==
    (pm_default_adds_only /\ pm_last.op = "add" /\ Len(recent) >= 2) =>
        recent[1].id = pm_last.id

\* ------------------------------------------------------ ContentAgent claims
\* the run_html_agent calls that have returned
CompletedCalls == IF ca_pc = "in_run" THEN ca_calls - 1 ELSE ca_calls

\* a run_html_agent call returns in this step
CallReturns == CompletedCalls' = CompletedCalls + 1

\* the dict appended to generated_chunks by the step
Appended == generated_chunks'[Len(generated_chunks')]

C24_OnlySuspensionIsApplyConfirmation ==
    (unit = "ManagerAgent" /\ mgr_pc = "suspended")
        => suspended_at \in {"apply_tool_func", "send_apply_request"}

\* C31: when the evaluator call fails, evaluator_score becomes 0,
\* evaluator_feedback carries the error message, and best_html_so_far and
\* best_score_so_far are left unchanged, also when best_score_so_far is -1
EvaluatorFailed == pc = "evaluator" /\ NodeStep /\ failures' = failures + 1
C31_FailedEvaluationIsNotPromoted ==
    [][EvaluatorFailed =>
          /\ evaluator_score' = Score(0)
          /\ evaluator_feedback' = ErrDuringEvaluation
          /\ UNCHANGED <<best_html_so_far, best_score_so_far>>]_vars
C31_Witness ==
    /\ evaluator_feedback = ErrDuringEvaluation
    /\ evaluator_score = Score(0)
    /\ html # ""
    /\ best_score_so_far = InitialBestScore
    /\ best_html_so_far = ""
    /\ pc = "moderator"

\* C32: when the moderator decides to proceed it clears html, evaluator_score,
\* evaluator_feedback, content_generation_outcome and validation_outcome and
\* sets max_retries_reached to false, and it leaves best_html_so_far,
\* best_score_so_far and the run inputs unchanged
ModeratorProceeds == pc = "moderator" /\ NodeStep /\ pc' = "content_generator"
C32_ProceedClearsTransientFields ==
    [][ModeratorProceeds =>
          /\ html' = ""
          /\ evaluator_score' = NoScore
          /\ evaluator_feedback' = None
          /\ content_generation_outcome' = None
          /\ validation_outcome' = None
          /\ max_retries_reached' = FALSE
          /\ UNCHANGED <<best_html_so_far, best_score_so_far, run_inputs>>]_vars
C32_Witness ==
    /\ pc = "content_generator"
    /\ entered_by = "reject"
    /\ best_score_so_far = 50
    /\ best_html_so_far # ""
    /\ html = ""
    /\ evaluator_feedback = None
    /\ run_inputs = RunInputs(2)

\* C33: a single ApplyAgent.run invokes the model for a location decision at
\* most max_retries + 1 times, whatever max_retries is and whatever the
\* model replies
C33_AtMostMaxRetriesPlusOneDecisions ==
    unit = "ApplyAgent" => decider_calls <= aa_max_retries + 1

\* C34: in ApplyAgent current_retry_count is 0 while the first
\* location_decider attempt runs, equals the number of failed attempts so far
\* whenever location_decider is about to run, and never exceeds max_retries
C34_ApplyRetryCountFollowsTheSameRule ==
    unit = "ApplyAgent" =>
        /\ (aa_pc = "location_decider" /\ decider_calls = 0) =>
               aa_current_retry_count = 0
        /\ aa_pc = "location_decider" => aa_current_retry_count = decider_failures
        /\ aa_current_retry_count <= aa_max_retries

\* C35: apply_tool_func(type, chunk_id) hands the type and the chunk id to
\* ApplyTool.apply each in its own role: for INSERT or EDIT with a chunk_id
\* absent from the chunk store it returns status 'error' with a message naming
\* that chunk_id and the model is not invoked; for a chunk_id present in the
\* store the prompt is built for the given type with that chunk's html
ApplyToolFuncStep ==
    /\ unit = "ManagerAgent"
    /\ mgr_turns' = mgr_turns + 1
    /\ mgr_tool_message'.tool = "apply_tool_func"
C35_TypeAndChunkIdKeepTheirRoles ==
    [][ApplyToolFuncStep =>
          LET type == mgr_apply_call'.type
              chunk_id == mgr_apply_call'.chunk_id
          IN  /\ (type \in {"INSERT", "EDIT"} /\ load_content_chunk(chunk_id) = Missing) =>
                    /\ mgr_tool_message'.status = "error"
                    /\ mgr_tool_message'.message =
                          <<"Chunk with id ", chunk_id, " not found.">>
                    /\ tool_model_calls' = 0
              /\ load_content_chunk(chunk_id) # Missing =>
                    tool_prompt' = get_prompt(type, load_content_chunk(chunk_id))
       ]_vars

\* C36: the chunk persisted and reported by run_html_agent holds the html that
\* HtmlAgent.run returned; in particular a best-effort html returned by a run
\* that ended without acceptance is what is stored, not a placeholder
C36_ChunkHoldsReturnedHtml ==
    [][ (unit = "ContentAgent" /\ CallReturns /\ ca_pc = "in_run") =>
            /\ Appended.html = result.html
            /\ content_chunks'[Appended.chunk_id].html = result.html
            /\ (ended_by # "accept" /\ best_html_so_far # "") =>
                   Appended.html = best_html_so_far ]_vars

\* C38: for every acceptance_threshold, an attempt whose evaluator call failed
\* is never accepted: the failed evaluation does not route to END, and the run
\* does not return status 'success' on that attempt
C38_FailedEvaluationIsNeverAccepted ==
    /\ [][EvaluatorFailed => pc' # "END"]_vars
    /\ []((pc = "done" /\ evaluator_feedback = ErrDuringEvaluation) =>
             result.status # "success")

\* -------------------------------------------------- legacy HtmlAgent claims
LegacyModeratorStep ==
    unit = "LegacyHtmlAgent" /\ lg_pc = "moderator" /\ lg_steps' = lg_steps + 1
\* every generation attempt of the current run has failed
LegacyGeneratorAlwaysFailed == lg_gen_calls > 0 /\ lg_gen_failures = lg_gen_calls

\* C37: in the legacy HtmlAgent a generator exception consumes a retry: the
\* moderator pass that follows one increases current_retry_count by 1 or
\* stops at the ceiling; when the generator fails on every attempt there are
\* at most max_retries + 1 generation attempts, and the run ends through
\* max_retries_reached and prepare_final_output, returning without raising
C37_LegacyGeneratorFailureConsumesRetry ==
    /\ [][ (LegacyModeratorStep /\ lg_entered_by = "generator_error") =>
              (lg_current_retry_count' = lg_current_retry_count + 1
                  \/ lg_max_retries_reached') ]_vars
    /\ [](LegacyGeneratorAlwaysFailed => lg_gen_calls <= lg_max_retries + 1)
    /\ []((lg_pc = "done" /\ LegacyGeneratorAlwaysFailed) =>
             (lg_ended_by = "ceiling" /\ lg_result = "returned"))

\* ----------------------------------------- PointerManager claims, continued
RemoveStep == unit = "PointerManager" /\ pm_last'.op = "remove"

====
